---- MODULE Spec2Model ----
(***************************************************************************)
(* Model of python/app.py: the Unix-domain-socket backend.                 *)
(*                                                                         *)
(*   AppState            counter, running, lock                            *)
(*   handlers            status_handler, input_handler, stop_handler,      *)
(*                       health_handler                                    *)
(*   process lifecycle   the __main__ block: banner, cleanup_socket,       *)
(*                       ensure_socket_directory, running = True, serve,   *)
(*                       and the try/except around asyncio.run             *)
(*                                                                         *)
(* Spec         the process from its start to its exit, requests served    *)
(*              one at a time on the event loop.                           *)
(* SpecThreads  NThreads threads calling AppState.increment_counter, each  *)
(*              bytecode-level step of the method an action.               *)
(***************************************************************************)
EXTENDS Integers, Sequences, FiniteSets

(* ------------------------------ bounds -------------------------------- *)

\* Requests served in one run of the process.
MaxReq == 3

\* Longest generated `input` string.
MaxLen == 2

\* Threads calling increment_counter concurrently.
NThreads == 3

\* Largest counter value the threads start from.
MaxStart == 2

(* --------------------------- JSON values ------------------------------ *)

\* A JSON value as json.loads returns it. Every value has the same fields, so
\* that values of different Python types compare: t is the Python type.
JVal(t, b, n, s, items, members) ==
    [t |-> t, b |-> b, n |-> n, s |-> s, items |-> items, members |-> members]

JNull == JVal("null", FALSE, 0, <<>>, <<>>, <<>>)

JBool(b) == JVal("bool", b, 0, <<>>, <<>>, <<>>)

JNum(n) == JVal("num", FALSE, n, <<>>, <<>>, <<>>)

JStr(s) == JVal("str", FALSE, 0, s, <<>>, <<>>)

JList(items) == JVal("list", FALSE, 0, <<>>, items, <<>>)

\* members: the key/value pairs in the order of the text.
JObj(members) == JVal("obj", FALSE, 0, <<>>, <<>>, members)

InputKey == <<"i", "n", "p", "u", "t">>

(* ------------------------- request bodies ----------------------------- *)

\* A body is a sequence of lexical tokens: punctuation, a literal, a one-digit
\* number, a string literal (s: its characters) or text that is no JSON token.
Tok(k, s) == [k |-> k, s |-> s]

LBrace == Tok("{", <<>>)

RBrace == Tok("}", <<>>)

LBrack == Tok("[", <<>>)

RBrack == Tok("]", <<>>)

Colon == Tok(":", <<>>)

Comma == Tok(",", <<>>)

TNull == Tok("null", <<>>)

TTrue == Tok("true", <<>>)

TFalse == Tok("false", <<>>)

TNum(d) == Tok("num", <<d>>)

TStr(s) == Tok("str", s)

TJunk == Tok("junk", <<"n", "o", "t", "-", "j", "s", "o", "n">>)

DigitVal(d) == CASE d = "0" -> 0 [] d = "5" -> 5 [] OTHER -> 1

IsScalarTok(tok) == tok.k \in {"null", "true", "false", "num", "str"}

ScalarOf(tok) ==
    CASE tok.k = "null" -> JNull
      [] tok.k = "true" -> JBool(TRUE)
      [] tok.k = "false" -> JBool(FALSE)
      [] tok.k = "num" -> JNum(DigitVal(tok.s[1]))
      [] OTHER -> JStr(tok.s)

\* toks[lo..hi] is scalar (, scalar)*
IsElements(toks, lo, hi) ==
    /\ (hi - lo) % 2 = 0
    /\ \A i \in lo..hi :
         IF (i - lo) % 2 = 0 THEN IsScalarTok(toks[i]) ELSE toks[i].k = ","

\* toks[lo..hi] is string : scalar (, string : scalar)*
IsMembers(toks, lo, hi) ==
    /\ (hi - lo) % 4 = 2
    /\ \A i \in lo..hi :
         CASE (i - lo) % 4 = 0 -> toks[i].k = "str"
           [] (i - lo) % 4 = 1 -> toks[i].k = ":"
           [] (i - lo) % 4 = 2 -> IsScalarTok(toks[i])
           [] OTHER -> toks[i].k = ","

\* request.json(): json.loads of the body. ok = FALSE when it raises.
ParseJson(toks) ==
    LET n == Len(toks)
        bad == [ok |-> FALSE, v |-> JNull]
        good(v) == [ok |-> TRUE, v |-> v]
    IN  IF n = 0 THEN bad
        ELSE IF n = 1
          THEN IF IsScalarTok(toks[1]) THEN good(ScalarOf(toks[1])) ELSE bad
        ELSE IF toks[1].k = "[" /\ toks[n].k = "]"
          THEN IF n = 2 THEN good(JList(<<>>))
               ELSE IF IsElements(toks, 2, n - 1)
                 THEN good(JList([i \in 1..((n - 1) \div 2) |->
                                     ScalarOf(toks[2 * i])]))
                 ELSE bad
        ELSE IF toks[1].k = "{" /\ toks[n].k = "}"
          THEN IF n = 2 THEN good(JObj(<<>>))
               ELSE IF IsMembers(toks, 2, n - 1)
                 THEN good(JObj([i \in 1..((n + 1) \div 4) |->
                                    <<toks[4 * i - 2].s, ScalarOf(toks[4 * i])>>]))
                 ELSE bad
        ELSE bad

(* ---------------------- Python on JSON values ------------------------- *)

\* bool(data): None, False, 0, "", [] and {} are falsy.
Truthy(v) ==
    CASE v.t = "null" -> FALSE
      [] v.t = "bool" -> v.b
      [] v.t = "num" -> v.n # 0
      [] v.t = "str" -> Len(v.s) > 0
      [] v.t = "list" -> Len(v.items) > 0
      [] OTHER -> Len(v.members) > 0

\* sub occurs in s as a contiguous run of characters.
IsSubstring(sub, s) ==
    \E k \in 0..(Len(s) - Len(sub)) : \A i \in 1..Len(sub) : s[k + i] = sub[i]

\* 'input' in data raises TypeError: an int or a bool is not iterable.
InRaises(v) == v.t \in {"num", "bool", "null"}

\* 'input' in data, for the types it is defined on: a key of a dict, an
\* element of a list, a substring of a str.
InputIn(v) ==
    CASE v.t = "obj" -> \E i \in 1..Len(v.members) : v.members[i][1] = InputKey
      [] v.t = "list" -> \E i \in 1..Len(v.items) : v.items[i] = JStr(InputKey)
      [] v.t = "str" -> IsSubstring(InputKey, v.s)
      [] OTHER -> FALSE

\* data['input'] raises TypeError: list and str indices must be integers.
SubscriptRaises(v) == v.t # "obj"

\* data['input'] of a dict holding the key: a repeated key keeps its last value.
GetInput(v) ==
    LET idx == {i \in 1..Len(v.members) : v.members[i][1] = InputKey}
        last == CHOOSE i \in idx : \A j \in idx : j <= i
    IN  v.members[last][2]

(* ------------------------ utility functions --------------------------- *)

\* str.maketrans("", "", "aeiouAEIOU"): the characters mapped to None.
DeleteTable == {"a", "e", "i", "o", "u", "A", "E", "I", "O", "U"}

\* s.translate(table): the characters of s in order, each looked up in the
\* table and left out when it maps to None.
RECURSIVE Translate(_, _)
Translate(s, table) ==
    IF s = <<>> THEN <<>>
    ELSE (IF Head(s) \in table THEN <<>> ELSE <<Head(s)>>)
         \o Translate(Tail(s), table)

LowerOnlyTable == {"a", "e", "i", "o", "u"}

remove_vowels_lower(s) == Translate(s, LowerOnlyTable)

remove_vowels(s) == Translate(s, DeleteTable)

YouSaid == <<"Y", "o", "u", " ", "s", "a", "i", "d", ":", " ">>

echo_user_input(user_input) == YouSaid \o user_input

(* --------------------------- responses -------------------------------- *)

\* One HTTP response. hasCount tells whether the JSON object has a `count`
\* field; input, message and output are set on a /input success only.
\* timestamp and the lucky number do not depend on the state and are left out.
Response(ep, status, body, hasCount, count, input, message, output) ==
    [ep |-> ep, status |-> status, body |-> body, hasCount |-> hasCount,
     count |-> count, input |-> input, message |-> message, output |-> output]

NoResponse == Response("none", 0, "", FALSE, 0, <<>>, <<>>, <<>>)

ErrorResponse(ep, status, body) ==
    Response(ep, status, body, FALSE, 0, <<>>, <<>>, <<>>)

\* An exception that leaves a handler: Starlette answers 500.
ServerError(ep) == ErrorResponse(ep, 500, "Internal Server Error")

(* --------------------------- input_handler ---------------------------- *)

\* The parse error handled by taking the body as absent (data = None), so
\* that the next check answers.
InputStageExceptNone(toks) ==
    LET p == ParseJson(toks)
    IN  IF ~p.ok \/ ~Truthy(p.v) THEN "noinput"
        ELSE IF InRaises(p.v) THEN "raise"
        ELSE IF ~InputIn(p.v) THEN "noinput"
        ELSE IF SubscriptRaises(p.v) THEN "raise"
        ELSE IF GetInput(p.v).t # "str" THEN "raise_counted"
        ELSE "ok"

\* Where input_handler stops on a body:
\*   "invalid"   request.json() raised               -> 400 Invalid JSON
\*   "noinput"   not data or 'input' not in data     -> 400 No input provided
\*   "raise"     the membership test or the subscript raised TypeError
\*   "raise_counted"  remove_vowels raised after increment_counter had run
\*   "ok"        the 200 response
InputStage(toks) ==
    LET p == ParseJson(toks)
    IN  IF ~p.ok THEN "invalid"
        ELSE IF ~Truthy(p.v) THEN "noinput"
        ELSE IF InRaises(p.v) THEN "raise"
        ELSE IF ~InputIn(p.v) THEN "noinput"
        ELSE IF SubscriptRaises(p.v) THEN "raise"
        ELSE IF GetInput(p.v).t # "str" THEN "raise_counted"
        ELSE "ok"

\* Whether input_handler reaches state.increment_counter() on this body.
InputIncrements(toks) == InputStage(toks) \in {"ok", "raise_counted"}

\* The response of input_handler; count is what increment_counter returned.
InputResponse(toks, count) ==
    LET stage == InputStage(toks)
        user_input == GetInput(ParseJson(toks).v).s
    IN  CASE stage = "invalid" -> ErrorResponse("input", 400, "Invalid JSON")
          [] stage = "noinput" -> ErrorResponse("input", 400, "No input provided")
          [] stage = "ok" ->
               Response("input", 200, "user_input", TRUE, count, user_input,
                        echo_user_input(user_input), remove_vowels(user_input))
          [] OTHER -> ServerError("input")

(* --------------------------- the bodies sent --------------------------- *)

Alphabet == {"a", "E", "b"}

\* Every string over Alphabet of at most MaxLen characters.
Strings == UNION {[1..k -> Alphabet] : k \in 0..MaxLen}

HelloWorld == <<"H", "e", "l", "l", "o", " ", "W", "o", "r", "l", "d">>

OtherKey == <<"o", "t", "h", "e", "r">>

\* {"input": <tok>}
InputBody(tok) == <<LBrace, TStr(InputKey), Colon, tok, RBrace>>

\* Bodies that json.loads rejects: empty, raw text, a truncated object, a
\* list with a trailing comma, an object whose key is not a string.
BadBodies ==
    { <<>>, <<TJunk>>, <<LBrace>>, <<LBrack, TNum("5"), Comma, RBrack>>,
      <<LBrace, TNum("5"), Colon, TNum("5"), RBrace>>,
      <<LBrace, TStr(InputKey), Colon, RBrace>> }

\* Bodies that parse to something other than an object with an `input` key.
NoKeyBodies ==
    { <<LBrace, RBrace>>, <<TNull>>, <<TFalse>>, <<TTrue>>, <<TNum("0")>>,
      <<TNum("5")>>, <<TStr(<<>>)>>, <<TStr(<<"b">>)>>, <<TStr(InputKey)>>,
      <<LBrack, RBrack>>, <<LBrack, TNum("5"), RBrack>>,
      <<LBrack, TStr(InputKey), RBrack>>,
      <<LBrace, TStr(OtherKey), Colon, TStr(<<"b">>), RBrace>> }

\* Objects with an `input` key: a value that is no string, a repeated key,
\* "Hello World", and every string of Strings.
KeyBodies ==
    { InputBody(TNum("5")), InputBody(TNull), InputBody(TTrue),
      <<LBrace, TStr(InputKey), Colon, TNum("5"), Comma,
        TStr(InputKey), Colon, TStr(<<"a", "b">>), RBrace>>,
      InputBody(TStr(HelloWorld)) }
    \cup { InputBody(TStr(s)) : s \in Strings }

Bodies == BadBodies \cup NoKeyBodies \cup KeyBodies

(* ------------------------------- state -------------------------------- *)

VARIABLES
    counter,     \* AppState.counter
    running,     \* AppState.running
    proc,        \* position of the __main__ block
    exitHow,     \* how the process ended
    trace,       \* the startup steps performed, in order
    sockExists,  \* a file exists at the socket path
    dirExists,   \* the socket's directory exists
    stopPc,      \* position of the /stop request in flight
    nServed,     \* requests whose handler has run
    counts,      \* the `count` values returned, in the order served
    lastReq,     \* the body of the last /input request
    last,        \* the last response sent
    lockHolder,  \* AppState.lock: the thread holding it, 0 when free
    tpc,         \* each thread's position in increment_counter
    tmp,         \* each thread's loaded value of self.counter
    ret,         \* each thread's return value, 0 before it returns
    start        \* the counter when the threads started

appVars == <<counter, running>>

procVars == <<proc, exitHow, trace, sockExists, dirExists>>

reqVars == <<stopPc, nServed, counts, lastReq, last>>

threadVars == <<lockHolder, tpc, tmp, ret, start>>

vars == <<counter, running, proc, exitHow, trace, sockExists, dirExists,
          stopPc, nServed, counts, lastReq, last,
          lockHolder, tpc, tmp, ret, start>>

Threads == 1..NThreads

\* AppState.__init__ and the module-level state = AppState().
AppStateInit ==
    /\ counter = 0
    /\ running = FALSE
    /\ lockHolder = 0

ThreadsIdle ==
    /\ tpc = [t \in Threads |-> "idle"]
    /\ tmp = [t \in Threads |-> 0]
    /\ ret = [t \in Threads |-> 0]
    /\ start = 0

\* The process at the first line of the __main__ block. A stale socket file
\* may be left from an earlier run; its directory may be missing.
Init ==
    /\ AppStateInit
    /\ proc = "banner"
    /\ exitHow = "none"
    /\ trace = <<>>
    /\ dirExists \in BOOLEAN
    /\ sockExists \in BOOLEAN
    /\ sockExists => dirExists
    /\ stopPc = "idle"
    /\ nServed = 0
    /\ counts = <<>>
    /\ lastReq = <<>>
    /\ last = NoResponse
    /\ ThreadsIdle

(* --------------------------- __main__: startup ------------------------ *)

Step(step, outcome) == [step |-> step, outcome |-> outcome]

\* The banner prints.
print_banner ==
    /\ proc = "banner"
    /\ proc' = "cleanup"
    /\ trace' = Append(trace, Step("banner", "printed"))
    /\ UNCHANGED <<exitHow, sockExists, dirExists>>
    /\ UNCHANGED <<appVars, reqVars, threadVars>>

\* cleanup_socket(): os.remove when the path exists; an exception is printed
\* and swallowed.
cleanup_socket ==
    /\ proc = "cleanup"
    /\ proc' = "ensure"
    /\ IF sockExists
         THEN \/ /\ sockExists' = FALSE
                 /\ trace' = Append(trace, Step("cleanup", "removed"))
              \/ /\ sockExists' = sockExists
                 /\ trace' = Append(trace, Step("cleanup", "error"))
         ELSE /\ sockExists' = sockExists
              /\ trace' = Append(trace, Step("cleanup", "absent"))
    /\ UNCHANGED <<exitHow, dirExists>>
    /\ UNCHANGED <<appVars, reqVars, threadVars>>

\* ensure_socket_directory(): os.makedirs when the directory is missing; an
\* exception is printed as a warning and swallowed.
ensure_socket_directory ==
    /\ proc = "ensure"
    /\ proc' = "mark"
    /\ IF ~dirExists
         THEN \/ /\ dirExists' = TRUE
                 /\ trace' = Append(trace, Step("ensure", "created"))
              \/ /\ dirExists' = dirExists
                 /\ trace' = Append(trace, Step("ensure", "warning"))
         ELSE /\ dirExists' = dirExists
              /\ trace' = Append(trace, Step("ensure", "present"))
    /\ UNCHANGED <<exitHow, sockExists>>
    /\ UNCHANGED <<appVars, reqVars, threadVars>>

\* The flag is not set before the server binds.
mark_running_skipped ==
    /\ proc = "mark"
    /\ proc' = "bind"
    /\ UNCHANGED <<running, counter, trace, exitHow, sockExists, dirExists>>
    /\ UNCHANGED <<reqVars, threadVars>>

\* state.running = True
mark_running ==
    /\ proc = "mark"
    /\ proc' = "bind"
    /\ running' = TRUE
    /\ trace' = Append(trace, Step("running", "set"))
    /\ UNCHANGED <<counter, exitHow, sockExists, dirExists>>
    /\ UNCHANGED <<reqVars, threadVars>>

\* asyncio.run(serve(app, config)) binds the socket and starts serving. The
\* bind needs the directory; over a stale socket file it succeeds when the
\* server can replace the file.
serve_bind_ok ==
    /\ proc = "bind"
    /\ dirExists
    /\ proc' = "serving"
    /\ sockExists' = TRUE
    /\ trace' = Append(trace, Step("bind", "ok"))
    /\ UNCHANGED <<exitHow, dirExists>>
    /\ UNCHANGED <<appVars, reqVars, threadVars>>

\* The bind raises (no directory, or the stale file is in the way):
\* except Exception prints the error and sets running False; the process ends.
serve_bind_error ==
    /\ proc = "bind"
    /\ ~dirExists \/ sockExists
    /\ proc' = "exited"
    /\ exitHow' = "error"
    /\ running' = FALSE
    /\ trace' = Append(trace, Step("bind", "error"))
    /\ UNCHANGED <<counter, sockExists, dirExists>>
    /\ UNCHANGED <<reqVars, threadVars>>

(* ------------------------------ AppState ------------------------------ *)

\* increment_counter() as one step: on the event loop nothing runs between
\* the lines of the method. The new counter, which is also the value returned.
increment_counter(c) == c + 1

(* ------------------------------ handlers ------------------------------ *)

\* A request is dispatched to its handler while the server serves, also
\* while it drains after a shutdown signal. running does not gate it.
Accepting == proc \in {"serving", "draining"} /\ nServed < MaxReq

\* GET /status
status_handler ==
    /\ Accepting
    /\ counter' = increment_counter(counter)
    /\ last' = Response("status", 200, "status", TRUE, counter', <<>>, <<>>, <<>>)
    /\ counts' = Append(counts, counter')
    /\ nServed' = nServed + 1
    /\ UNCHANGED <<running, stopPc, lastReq>>
    /\ UNCHANGED <<procVars, threadVars>>

\* POST /input
input_handler ==
    /\ Accepting
    /\ \E toks \in Bodies :
         /\ lastReq' = toks
         /\ counter' = IF InputIncrements(toks)
                         THEN increment_counter(counter) ELSE counter
         /\ last' = InputResponse(toks, counter')
         /\ counts' = IF last'.hasCount THEN Append(counts, last'.count)
                                        ELSE counts
    /\ nServed' = nServed + 1
    /\ UNCHANGED <<running, stopPc>>
    /\ UNCHANGED <<procVars, threadVars>>

\* GET /health, counting the request as /status does.
health_handler_counting ==
    /\ Accepting
    /\ counter' = increment_counter(counter)
    /\ last' = ErrorResponse("health", 200, "ok")
    /\ nServed' = nServed + 1
    /\ UNCHANGED <<running, stopPc, counts, lastReq>>
    /\ UNCHANGED <<procVars, threadVars>>

\* GET /health
health_handler ==
    /\ Accepting
    /\ last' = ErrorResponse("health", 200, "ok")
    /\ nServed' = nServed + 1
    /\ UNCHANGED <<appVars, stopPc, counts, lastReq>>
    /\ UNCHANGED <<procVars, threadVars>>

\* POST /stop up to os.kill(os.getpid(), signal.SIGTERM), where SIGTERM has
\* its default action: the process ends inside the call.
stop_handler_kill_default ==
    /\ Accepting
    /\ stopPc # "signalled"
    /\ running' = FALSE
    /\ stopPc' = "signalled"
    /\ nServed' = nServed + 1
    /\ proc' = "exited"
    /\ exitHow' = "killed"
    /\ UNCHANGED <<counter, counts, lastReq, last>>
    /\ UNCHANGED <<trace, sockExists, dirExists, threadVars>>

\* POST /stop up to os.kill, where the server catches SIGTERM: the serve
\* loop starts to shut down and the handler goes on.
stop_handler_kill_caught ==
    /\ Accepting
    /\ stopPc # "signalled"
    /\ running' = FALSE
    /\ stopPc' = "signalled"
    /\ nServed' = nServed + 1
    /\ proc' = "draining"
    /\ UNCHANGED <<counter, counts, lastReq, last>>
    /\ UNCHANGED <<exitHow, trace, sockExists, dirExists, threadVars>>

\* POST /stop: return JSONResponse({"status": "stopping"}), sent to the caller.
stop_handler_return ==
    /\ proc \in {"serving", "draining"}
    /\ stopPc = "signalled"
    /\ stopPc' = "responded"
    /\ last' = ErrorResponse("stop", 200, "stopping")
    /\ UNCHANGED <<appVars, nServed, counts, lastReq>>
    /\ UNCHANGED <<procVars, threadVars>>

(* -------------------------- __main__: shutdown ------------------------- *)

\* SIGTERM from outside, default action: the process ends at once.
sigterm_default ==
    /\ proc = "serving"
    /\ proc' = "exited"
    /\ exitHow' = "killed"
    /\ UNCHANGED <<trace, sockExists, dirExists>>
    /\ UNCHANGED <<appVars, reqVars, threadVars>>

\* SIGTERM or SIGINT from outside, caught by the server: the serve loop
\* starts to shut down.
signal_caught ==
    /\ proc = "serving"
    /\ proc' = "draining"
    /\ UNCHANGED <<exitHow, trace, sockExists, dirExists>>
    /\ UNCHANGED <<appVars, reqVars, threadVars>>

\* asyncio.run raises KeyboardInterrupt: except KeyboardInterrupt prints
\* "Shutdown signal received" and sets running False; the process ends.
keyboard_interrupt ==
    /\ proc \in {"serving", "draining"}
    /\ proc' = "exited"
    /\ exitHow' = "interrupt"
    /\ running' = FALSE
    /\ UNCHANGED <<counter, trace, sockExists, dirExists>>
    /\ UNCHANGED <<reqVars, threadVars>>

\* asyncio.run raises another exception: except Exception prints it and sets
\* running False; the process ends.
serve_error ==
    /\ proc \in {"serving", "draining"}
    /\ proc' = "exited"
    /\ exitHow' = "error"
    /\ running' = FALSE
    /\ UNCHANGED <<counter, trace, sockExists, dirExists>>
    /\ UNCHANGED <<reqVars, threadVars>>

\* asyncio.run returns once the serve loop has shut down: the try statement
\* has no else or finally, and the process ends with running as it was.
serve_return ==
    /\ proc = "draining"
    /\ proc' = "exited"
    /\ exitHow' = "returned"
    /\ UNCHANGED <<trace, sockExists, dirExists>>
    /\ UNCHANGED <<appVars, reqVars, threadVars>>

Next ==
    \/ print_banner
    \/ cleanup_socket
    \/ ensure_socket_directory
    \/ mark_running
    \/ serve_bind_ok
    \/ serve_bind_error
    \/ status_handler
    \/ input_handler
    \/ health_handler
    \/ stop_handler_kill_default
    \/ stop_handler_kill_caught
    \/ stop_handler_return
    \/ sigterm_default
    \/ signal_caught
    \/ keyboard_interrupt
    \/ serve_error
    \/ serve_return

Spec == Init /\ [][Next]_vars

(* ------------- AppState.increment_counter, thread by thread ----------- *)

\* The threads start their calls with the counter at any value up to
\* MaxStart; the process itself is not modelled here.
InitThreads ==
    /\ counter \in 0..MaxStart
    /\ start = counter
    /\ running = TRUE
    /\ lockHolder = 0
    /\ tpc = [t \in Threads |-> "call"]
    /\ tmp = [t \in Threads |-> 0]
    /\ ret = [t \in Threads |-> 0]
    /\ proc = "serving"
    /\ exitHow = "none"
    /\ trace = <<>>
    /\ dirExists = TRUE
    /\ sockExists = TRUE
    /\ stopPc = "idle"
    /\ nServed = 0
    /\ counts = <<>>
    /\ lastReq = <<>>
    /\ last = NoResponse

\* The with statement entered without taking the lock.
LockAcquirableAlways(holder) == TRUE

\* threading.Lock.acquire() goes through only when no thread holds the lock.
LockAcquirable(holder) == holder = 0

\* with self.lock: (enter)
Acquire(t) ==
    /\ tpc[t] = "call"
    /\ LockAcquirable(lockHolder)
    /\ lockHolder' = t
    /\ tpc' = [tpc EXCEPT ![t] = "load"]
    /\ UNCHANGED <<counter, running, tmp, ret, start, procVars, reqVars>>

\* self.counter += 1: the load of self.counter
Load(t) ==
    /\ tpc[t] = "load"
    /\ tmp' = [tmp EXCEPT ![t] = counter]
    /\ tpc' = [tpc EXCEPT ![t] = "store"]
    /\ UNCHANGED <<counter, running, lockHolder, ret, start, procVars, reqVars>>

\* self.counter += 1: the add and the store
Store(t) ==
    /\ tpc[t] = "store"
    /\ counter' = tmp[t] + 1
    /\ tpc' = [tpc EXCEPT ![t] = "return"]
    /\ UNCHANGED <<running, lockHolder, tmp, ret, start, procVars, reqVars>>

\* return self.counter: the value is read inside the with block
Return(t) ==
    /\ tpc[t] = "return"
    /\ ret' = [ret EXCEPT ![t] = counter]
    /\ tpc' = [tpc EXCEPT ![t] = "release"]
    /\ UNCHANGED <<counter, running, lockHolder, tmp, start, procVars, reqVars>>

\* with self.lock: (exit), on the way out of the return
Release(t) ==
    /\ tpc[t] = "release"
    /\ lockHolder' = 0
    /\ tpc' = [tpc EXCEPT ![t] = "done"]
    /\ UNCHANGED <<counter, running, tmp, ret, start, procVars, reqVars>>

NextThreads ==
    \E t \in Threads :
        \/ Acquire(t)
        \/ Load(t)
        \/ Store(t)
        \/ Return(t)
        \/ Release(t)

SpecThreads == InitThreads /\ [][NextThreads]_vars

(* ------------------------------- claims ------------------------------- *)

\* C1: with no reset, the `count` values returned by the /status and /input
\* calls, in the order the calls are served, are 1, 2, 3, ... with no gap and
\* no repeat: the i-th value returned is i.
C1_CountsAreOneToN == \A i \in 1..Len(counts) : counts[i] = i

\* The threads that have read their return value.
Returned == {t \in Threads : tpc[t] \in {"release", "done"}}

\* C2: increment_counter is linearizable. Of k concurrent calls started with
\* the counter at c, the calls that have returned hold pairwise different
\* values, each one a value in c+1..c+k that the counter has reached; the
\* counter never exceeds c plus the calls begun; and once all k have
\* returned, the values are exactly c+1..c+k and the counter is c+k.
C2_Linearizable ==
    /\ \A t \in Returned : ret[t] \in (start + 1)..counter
    /\ \A t1, t2 \in Returned : t1 # t2 => ret[t1] # ret[t2]
    /\ counter = start + Cardinality({t \in Threads :
                                        tpc[t] \in {"return", "release", "done"}})
    /\ (\A t \in Threads : tpc[t] = "done") =>
         /\ {ret[t] : t \in Threads} = (start + 1)..(start + NThreads)
         /\ counter = start + NThreads

C2_Witness ==
    /\ \A t \in Threads : tpc[t] = "done"
    /\ start = MaxStart
    /\ counter = MaxStart + NThreads

\* The parsed body is an object that has the key `input`.
SuppliesInput(v) ==
    /\ v.t = "obj"
    /\ \E i \in 1..Len(v.members) : v.members[i][1] = InputKey

\* C3: a POST /input whose body parses as JSON and supplies no `input` key,
\* whatever the JSON value, is answered 400 {"error": "No input provided"}.
C3_MissingInputIs400 ==
    (/\ last.ep = "input"
     /\ ParseJson(lastReq).ok
     /\ ~SuppliesInput(ParseJson(lastReq).v))
    => (last.status = 400 /\ last.body = "No input provided")

\* C4: a POST /input whose body is not parseable as JSON is answered 400
\* {"error": "Invalid JSON"}, never "No input provided".
C4_InvalidJsonIs400 ==
    (last.ep = "input" /\ lastReq \in BadBodies)
    => (last.status = 400 /\ last.body = "Invalid JSON")

C4_Witness ==
    /\ last.ep = "input"
    /\ lastReq = <<TJunk>>
    /\ last.body = "Invalid JSON"
    /\ counter > 0

\* C5: the process never exits with the response of a /stop that reached
\* stop_handler undelivered.
C5_StopResponseDelivered == proc = "exited" => stopPc # "signalled"

\* C6: GET /health is answered 200 {"status": "ok"} whenever the server
\* dispatches requests, whatever the counter and the RunningFlag, and the
\* step leaves the counter, the RunningFlag and the returned counts as they
\* were.
C6_HealthHasNoEffect ==
    /\ [](Accepting => ENABLED health_handler)
    /\ [][(nServed' = nServed + 1 /\ stopPc' = stopPc /\ last'.ep = "health")
            => /\ last'.status = 200
               /\ last'.body = "ok"
               /\ ~last'.hasCount
               /\ counter' = counter
               /\ running' = running
               /\ counts' = counts]_vars

C6_Witness ==
    /\ last.ep = "health"
    /\ last.status = 200
    /\ ~running
    /\ counter > 0

Vowels == {"a", "e", "i", "o", "u", "A", "E", "I", "O", "U"}

NotVowel(c) == c \notin Vowels

\* The string sent as the value of the last `input` key of an object body.
SentInput(toks) == toks[Len(toks) - 1].s

\* C7: the `output` of a successful POST /input is the input with every
\* character of aeiouAEIOU dropped and the others kept in order ("Hello
\* World" gives "Hll Wrld"); `input` is the input verbatim and `message` is
\* "You said: " followed by it.
C7_OutputDropsVowels ==
    (last.ep = "input" /\ last.status = 200)
    => /\ last.output = SelectSeq(SentInput(lastReq), NotVowel)
       /\ last.input = SentInput(lastReq)
       /\ last.message = YouSaid \o SentInput(lastReq)
       /\ (last.input = HelloWorld
             => last.output = <<"H", "l", "l", " ", "W", "r", "l", "d">>)

C7_Witness ==
    /\ last.ep = "input"
    /\ last.status = 200
    /\ last.input = HelloWorld
    /\ Len(last.output) = 8

\* C8: the process never exits with the RunningFlag still true.
C8_ExitedNotRunning == proc = "exited" => ~running

StartupOrder == <<"banner", "cleanup", "ensure", "running", "bind">>

\* C9: the startup steps happen in the order banner, stale-socket cleanup,
\* directory check, RunningFlag set true, bind, also when the cleanup or the
\* directory creation fails; no request is handled before the flag was set
\* and the bind succeeded.
C9_StartupOrder ==
    /\ Len(trace) <= Len(StartupOrder)
    /\ \A i \in 1..Len(trace) : trace[i].step = StartupOrder[i]
    /\ nServed > 0 =>
         /\ \E i \in 1..Len(trace) : trace[i] = Step("running", "set")
         /\ trace[Len(trace)] = Step("bind", "ok")

C9_Witness ==
    /\ nServed > 0
    /\ \E i \in 1..Len(trace) : trace[i] = Step("cleanup", "error")

\* C10: the counter grows by exactly 1 in a step that answers 200 with a
\* `count` field and is unchanged in every other step.
C10_CounterOnlyOnSuccess ==
    [][IF /\ nServed' = nServed + 1
          /\ stopPc' = stopPc
          /\ last'.status = 200
          /\ last'.hasCount
         THEN counter' = counter + 1
         ELSE counter' = counter]_vars

====
